---- MODULE Spec2Model ----
\* C4.5 decision-tree induction of hew/classifiers/c45.py:
\* table construction (fromTable/_validate), partitioning, the recursive
\* buildTree, the rule emitter outputDecision and the driver makeDecisionTree.
EXTENDS Integers, Sequences, FiniteSets, TLC

\* ---------------------------------------------------------------------------
\* Bounds and input alphabets
\* ---------------------------------------------------------------------------
MaxRows == 3
MaxMaxDepth == 3
DefaultMaxDepth == 20
InitialDepth == 1
InitialMaxDepth == 100

Vals == {"x", "y"}
None == "None"
Target == "T"
Missing == "Z"
KeyOrders == { <<"T">>, <<"A", "T">>, <<"A", "B", "T">> }

VARIABLES
    pc,        \* position of the program: main, start, build, emit, done, raised, aborted
    rows,      \* arrayOfDictionaries: each row an ordered sequence of <<col, value>>
    res_col,   \* the target column name
    maxDepth,  \* the maxDepth argument
    nodes,     \* the Node objects created so far: [data: C45, children: Seq(id)]
    stack,     \* activation records of buildTree, innermost last
    todo,      \* activation records of outputDecision still to run, next one first
    lists,     \* the predicate lists allocated by outputDecision, by identity
    fout,      \* lines printed to the output sink
    ferr,      \* lines printed to sys.stderr
    prev       \* outputs of earlier runs on the same input

vars == <<pc, rows, res_col, maxDepth, nodes, stack, todo, lists, fout, ferr, prev>>

\* ---------------------------------------------------------------------------
\* Generic helpers
\* ---------------------------------------------------------------------------
Range(s) == { s[i] : i \in 1..Len(s) }

Perms(S) == { p \in [1..Cardinality(S) -> S] : \A i, j \in 1..Cardinality(S) : p[i] = p[j] => i = j }

RECURSIVE Pow(_, _)
Pow(b, e) == IF e = 0 THEN 1 ELSE b * Pow(b, e - 1)

RECURSIVE SumSeq(_)
SumSeq(s) == IF s = <<>> THEN 0 ELSE Head(s) + SumSeq(Tail(s))

RECURSIVE ProdSet(_, _)
ProdSet(S, f) ==
    IF S = {} THEN 1
    ELSE LET e == CHOOSE e \in S : TRUE IN f[e] * ProdSet(S \ {e}, f)

RECURSIVE Filter(_, _)
Filter(s, idxs) ==
    IF s = <<>> THEN <<>>
    ELSE LET n == Len(s)
             front == Filter(SubSeq(s, 1, n - 1), idxs)
         IN IF n \in idxs THEN Append(front, s[n]) ELSE front

\* ---------------------------------------------------------------------------
\* The ordered dictionary columnSet: a sequence of <<column name, list>>
\* ---------------------------------------------------------------------------
Keys(cs) == [i \in 1..Len(cs) |-> cs[i][1]]

KeySet(cs) == { cs[i][1] : i \in 1..Len(cs) }

Column(cs, k) == cs[CHOOSE i \in 1..Len(cs) : cs[i][1] = k][2]

DictAppend(cs, k, x) ==
    IF k \in KeySet(cs)
    THEN [i \in 1..Len(cs) |-> IF cs[i][1] = k THEN <<k, Append(cs[i][2], x)>> ELSE cs[i]]
    ELSE Append(cs, <<k, <<x>>>>)

DictDelete(cs, k) ==
    LET keep == { i \in 1..Len(cs) : cs[i][1] # k } IN Filter(cs, keep)

\* ---------------------------------------------------------------------------
\* C45 objects
\* ---------------------------------------------------------------------------
C45(dictionaryOfLists) ==
    [columnSet |-> dictionaryOfLists, partitionKey |-> None, partitionValue |-> None,
     depth |-> InitialDepth, maxDepth |-> InitialMaxDepth]

size(self) == Len(self.columnSet[1][2])

validate(self) ==
    /\ Len(self.columnSet) > 0
    /\ \A i \in 1..Len(self.columnSet) :
        /\ self.columnSet[i][1] # ""
        /\ Len(self.columnSet[i][2]) = size(self)

RECURSIVE rowInto(_, _)
rowInto(T, row) ==
    IF row = <<>> THEN T
    ELSE rowInto(DictAppend(T, Head(row)[1], Head(row)[2]), Tail(row))

RECURSIVE groupRows(_, _)
groupRows(T, arrayOfDictionaries) ==
    IF arrayOfDictionaries = <<>> THEN T
    ELSE groupRows(rowInto(T, Head(arrayOfDictionaries)), Tail(arrayOfDictionaries))

fromTable(arrayOfDictionaries) == C45(groupRows(<<>>, arrayOfDictionaries))

rule(self) ==
    IF self.partitionKey = None THEN <<>> ELSE <<self.partitionKey, self.partitionValue>>

uniqueSet(self, col) == Range(Column(self.columnSet, col))

uniques(self, col) == Perms(uniqueSet(self, col))

frequency(self, col, v) ==
    Cardinality({ i \in 1..Len(Column(self.columnSet, col)) : Column(self.columnSet, col)[i] = v })

\* a comparison of the two ends of the column only
isHomogeneous_endsOnly(self, col) ==
    LET c == Column(self.columnSet, col) IN c[Len(c)] = c[1]

isHomogeneous(self, col) ==
    LET c == Column(self.columnSet, col) IN \A i \in 1..Len(c) : c[i] = c[1]

\* an enumeration that misses the first row
get_indexes_skipFirst(self, col, v) ==
    { i \in 2..Len(Column(self.columnSet, col)) : Column(self.columnSet, col)[i] = v }

get_indexes(self, col, v) ==
    { i \in 1..Len(Column(self.columnSet, col)) : Column(self.columnSet, col)[i] = v }

get_values(self, col, indexes) == Filter(Column(self.columnSet, col), indexes)

\* a partition that keeps its parent's depth
buildPartition_sameDepth(self, col, v) ==
    LET idxs == get_indexes(self, col, v)
        p == [i \in 1..Len(self.columnSet) |->
                <<self.columnSet[i][1], Filter(self.columnSet[i][2], idxs)>>]
    IN [columnSet |-> p, partitionKey |-> col, partitionValue |-> v,
        depth |-> self.depth, maxDepth |-> self.maxDepth]

buildPartition(self, col, v) ==
    LET idxs == get_indexes(self, col, v)
        p == [i \in 1..Len(self.columnSet) |->
                <<self.columnSet[i][1], Filter(self.columnSet[i][2], idxs)>>]
    IN [columnSet |-> p, partitionKey |-> col, partitionValue |-> v,
        depth |-> self.depth + 1, maxDepth |-> self.maxDepth]

\* a loop that stops one value short
partitionOnFeature_dropLast(self, col, order) ==
    [i \in 1..(Len(order) - 1) |-> buildPartition(self, col, order[i])]

partitionOnFeature(self, col, order) ==
    [i \in 1..Len(order) |-> buildPartition(self, col, order[i])]

\* ---------------------------------------------------------------------------
\* Entropy and gain.  The code works with floats and log2; the model keeps the
\* exact quantities 2^(n*info) and 2^(n*infox) (n = size of the table) as
\* fractions of integers, which order the gains exactly as the reals do.
\* ---------------------------------------------------------------------------
info(self, rc) ==
    LET c == Column(self.columnSet, rc)
        n == Len(c)
        U == Range(c)
        f == [v \in U |-> Cardinality({ i \in 1..n : c[i] = v })]
    IN [num |-> Pow(n, n), den |-> ProdSet(U, [v \in U |-> Pow(f[v], f[v])])]

infox(self, col, rc) ==
    LET U == uniqueSet(self, col)
        sub == [v \in U |-> info(buildPartition(self, col, v), rc)]
    IN [num |-> ProdSet(U, [v \in U |-> sub[v].num]),
        den |-> ProdSet(U, [v \in U |-> sub[v].den])]

gain(self, x, rc) == [info |-> info(self, rc), infox |-> infox(self, x, rc)]

\* g1 < g2 for gains of the same table: info - infox1 < info - infox2
gainLess(g1, g2) == g2.infox.num * g1.infox.den < g1.infox.num * g2.infox.den

gainList(self, rc) ==
    LET ks == Keys(self.columnSet)
        cand == { i \in 1..Len(ks) : ks[i] # rc }
    IN Filter(ks, cand)

\* max(gain_list, key=...)[0]: the first column with no strictly larger gain
bestColumn(self, rc) ==
    LET gl == gainList(self, rc)
        g == [i \in 1..Len(gl) |-> gain(self, gl[i], rc)]
        isMax == [i \in 1..Len(gl) |-> \A j \in 1..Len(gl) : ~gainLess(g[i], g[j])]
    IN gl[CHOOSE i \in 1..Len(gl) : isMax[i] /\ \A j \in 1..(i - 1) : ~isMax[j]]

\* ---------------------------------------------------------------------------
\* Node objects (hew.structures.node)
\* ---------------------------------------------------------------------------
Node(data) == [data |-> data, children |-> <<>>]

add(node, child) == [node EXCEPT !.children = Append(@, child)]

\* ---------------------------------------------------------------------------
\* Initial states
\* ---------------------------------------------------------------------------
RowsOver(ko) ==
    { [i \in 1..Len(ko) |-> <<ko[i], f[i]>>] : f \in [1..Len(ko) -> Vals] }

\* Values are opaque categories that the program only compares within one
\* column, so renaming the values of a column changes nothing: the tables are
\* taken up to that renaming, with "x" throughout their first row.
TablesOver(ko) ==
    { t \in UNION { [1..n -> RowsOver(ko)] : n \in 0..MaxRows } :
        t # <<>> => \A i \in 1..Len(ko) : t[1][i][2] = "x" }

PartialRows ==
    UNION { RowsOver(ko) : ko \in { <<>>, <<"A">>, <<"T">>, <<"A", "T">> } }

Init ==
    /\ pc = "main"
    /\ rows = <<>>
    /\ res_col = None
    /\ maxDepth = DefaultMaxDepth
    /\ nodes = <<>>
    /\ stack = <<>>
    /\ todo = <<>>
    /\ lists = <<>>
    /\ fout = <<>>
    /\ ferr = <<>>
    /\ prev = <<>>

\* ---------------------------------------------------------------------------
\* The callers of makeDecisionTree
\* ---------------------------------------------------------------------------
\* __main__: the rows csv.DictReader delivers all have the header's columns
Main ==
    /\ pc = "main"
    /\ pc' = "start"
    /\ rows' \in UNION { TablesOver(ko) : ko \in KeyOrders }
    /\ res_col' \in {Target, Missing}
    /\ maxDepth' \in (-1)..MaxMaxDepth
    /\ UNCHANGED <<nodes, stack, todo, lists, fout, ferr, prev>>

\* a caller that hands over row mappings of its own making
CallWithRows ==
    /\ pc = "main"
    /\ pc' = "start"
    /\ rows' \in UNION { [1..n -> PartialRows] : n \in 0..MaxRows }
    /\ res_col' = Target
    /\ UNCHANGED <<maxDepth, nodes, stack, todo, lists, fout, ferr, prev>>

\* ---------------------------------------------------------------------------
\* makeDecisionTree, first part: fromTable, the target check, the first call
\* ---------------------------------------------------------------------------
Frame(self) == [entry |-> self, node |-> 0, col |-> None, parts |-> <<>>, i |-> 0, st |-> "enter"]

\* the header printed before the target column is checked
MakeDecisionTree_headerFirst ==
    /\ pc = "start"
    /\ \/ /\ ~validate(fromTable(rows))
          /\ pc' = "raised"
          /\ UNCHANGED <<stack, ferr, fout>>
       \/ /\ validate(fromTable(rows))
          /\ res_col \notin KeySet(fromTable(rows).columnSet)
          /\ pc' = "aborted"
          /\ fout' = Append(fout, <<"Count", "Path_Length", "Result", "Predicates">>)
          /\ ferr' = Append(ferr, <<res_col, "is not a valid column. Exiting.">>)
          /\ UNCHANGED stack
       \/ /\ validate(fromTable(rows))
          /\ res_col \in KeySet(fromTable(rows).columnSet)
          /\ pc' = "build"
          /\ stack' = <<Frame([fromTable(rows) EXCEPT !.maxDepth = maxDepth])>>
          /\ UNCHANGED <<ferr, fout>>
    /\ UNCHANGED <<rows, res_col, maxDepth, nodes, todo, lists, prev>>

MakeDecisionTree ==
    /\ pc = "start"
    /\ \/ /\ ~validate(fromTable(rows))
          /\ pc' = "raised"
          /\ UNCHANGED <<stack, ferr>>
       \/ /\ validate(fromTable(rows))
          /\ res_col \notin KeySet(fromTable(rows).columnSet)
          /\ pc' = "aborted"
          /\ ferr' = Append(ferr, <<res_col, "is not a valid column. Exiting.">>)
          /\ UNCHANGED stack
       \/ /\ validate(fromTable(rows))
          /\ res_col \in KeySet(fromTable(rows).columnSet)
          /\ pc' = "build"
          /\ stack' = <<Frame([fromTable(rows) EXCEPT !.maxDepth = maxDepth])>>
          /\ UNCHANGED ferr
    /\ UNCHANGED <<rows, res_col, maxDepth, nodes, todo, lists, fout, prev>>

\* ---------------------------------------------------------------------------
\* buildTree
\* ---------------------------------------------------------------------------
Top == stack[Len(stack)]

SetTop(f) == [stack EXCEPT ![Len(stack)] = f]

\* lines 137-148: wrap self, the two stop conditions, choose and partition
BuildTreeEnter ==
    /\ pc = "build"
    /\ stack # <<>>
    /\ Top.st = "enter"
    /\ nodes' = Append(nodes, Node(Top.entry))
    /\ \/ /\ Top.entry.depth > Top.entry.maxDepth
          /\ stack' = SetTop([Top EXCEPT !.node = Len(nodes) + 1, !.st = "return"])
       \/ /\ Top.entry.depth <= Top.entry.maxDepth
          /\ gainList(Top.entry, res_col) = <<>>
          /\ stack' = SetTop([Top EXCEPT !.node = Len(nodes) + 1, !.st = "return"])
       \/ /\ Top.entry.depth <= Top.entry.maxDepth
          /\ gainList(Top.entry, res_col) # <<>>
          /\ LET col == bestColumn(Top.entry, res_col) IN
             \E order \in uniques(Top.entry, col) :
                stack' = SetTop([Top EXCEPT
                    !.node = Len(nodes) + 1,
                    !.col = col,
                    !.i = 1,
                    !.st = "loop",
                    !.parts = partitionOnFeature(Top.entry, col, order)])
    /\ UNCHANGED <<pc, rows, res_col, maxDepth, todo, lists, fout, ferr, prev>>

\* the deletion left out
DelColumn_forgotten(selfcs, subcs, col) == <<selfcs, subcs>>

\* the deletion done on the table being split instead of on the partition
DelColumn_onSelf(selfcs, subcs, col) == <<DictDelete(selfcs, col), subcs>>

\* del subt.columnSet[col]: the pair <<self's columnSet, subt's columnSet>> afterwards
DelColumn(selfcs, subcs, col) == <<selfcs, DictDelete(subcs, col)>>

\* lines 149-150: a homogeneous partition becomes a leaf
LoopHomogeneous ==
    /\ pc = "build"
    /\ stack # <<>>
    /\ Top.st = "loop"
    /\ Top.i <= Len(Top.parts)
    /\ LET subt == Top.parts[Top.i]
           id == Len(nodes) + 1
       IN /\ isHomogeneous(subt, res_col)
          /\ nodes' = Append([nodes EXCEPT ![Top.node] = add(@, id)], Node(subt))
          /\ stack' = SetTop([Top EXCEPT !.i = @ + 1])
    /\ UNCHANGED <<pc, rows, res_col, maxDepth, todo, lists, fout, ferr, prev>>

\* lines 151-153: remove the split column and call buildTree on the partition
LoopRecurse ==
    /\ pc = "build"
    /\ stack # <<>>
    /\ Top.st = "loop"
    /\ Top.i <= Len(Top.parts)
    /\ LET subt == Top.parts[Top.i]
           d == DelColumn(nodes[Top.node].data.columnSet, subt.columnSet, Top.col)
           subt2 == [subt EXCEPT !.columnSet = d[2]]
       IN /\ ~isHomogeneous(subt, res_col)
          /\ nodes' = [nodes EXCEPT ![Top.node].data.columnSet = d[1]]
          /\ stack' = Append(SetTop([Top EXCEPT !.parts[Top.i] = subt2, !.i = @ + 1]),
                             Frame(subt2))
    /\ UNCHANGED <<pc, rows, res_col, maxDepth, todo, lists, fout, ferr, prev>>

Header == <<"Count", "Path_Length", "Result", "Predicates">>

Call(node, predicates) == [node |-> node, predicates |-> predicates]

\* return tree: to the caller's tree.add, or to makeDecisionTree lines 185-186
BuildTreeReturn ==
    /\ pc = "build"
    /\ stack # <<>>
    /\ \/ Top.st = "return"
       \/ Top.st = "loop" /\ Top.i > Len(Top.parts)
    /\ stack' = SubSeq(stack, 1, Len(stack) - 1)
    /\ IF Len(stack) > 1
       THEN /\ nodes' = [nodes EXCEPT ![stack[Len(stack) - 1].node] = add(@, Top.node)]
            /\ UNCHANGED <<pc, fout, todo, lists>>
       ELSE /\ pc' = "emit"
            /\ fout' = Append(fout, Header)
            /\ lists' = << <<>> >>
            /\ todo' = <<Call(Top.node, 1)>>
            /\ UNCHANGED nodes
    /\ UNCHANGED <<rows, res_col, maxDepth, ferr, prev>>

\* ---------------------------------------------------------------------------
\* outputDecision
\* ---------------------------------------------------------------------------
Line(c45, predicates, target) ==
    [Count |-> size(c45), Path_Length |-> Len(predicates),
     Result |-> <<res_col, target>>, Predicates |-> predicates]

\* the caller's own list handed to every child
listCopy_alias(heap, predicates, k) == predicates

\* list(predicates) of line 171, made for the k-th child: the identity of the
\* list that child receives (a fresh one, holding a copy)
listCopy(heap, predicates, k) == Len(heap) + k

OutputDecision ==
    /\ pc = "emit"
    /\ todo # <<>>
    /\ LET node == nodes[Head(todo).node]
           c45 == node.data
           id == Head(todo).predicates
           heap == IF rule(c45) # <<>> THEN [lists EXCEPT ![id] = Append(@, rule(c45))]
                   ELSE lists
           n == Len(node.children)
           rest == IF n = 0 THEN Tail(todo)
                   ELSE [k \in 1..n |-> Call(node.children[k], listCopy(heap, id, k))]
                        \o Tail(todo)
       IN /\ IF n = 0
             THEN /\ \E target \in uniques(c45, res_col) :
                        fout' = Append(fout, Line(c45, heap[id], target))
                  /\ lists' = heap
             ELSE /\ lists' = heap \o [k \in 1..n |-> heap[id]]
                  /\ UNCHANGED fout
          /\ todo' = rest
          /\ pc' = IF rest = <<>> THEN "done" ELSE "emit"
    /\ UNCHANGED <<rows, res_col, maxDepth, nodes, stack, ferr, prev>>

\* the driver is run again on the same input
Rerun ==
    /\ pc = "done"
    /\ prev = <<>>
    /\ prev' = Append(prev, fout)
    /\ pc' = "start"
    /\ nodes' = <<>>
    /\ stack' = <<>>
    /\ todo' = <<>>
    /\ lists' = <<>>
    /\ fout' = <<>>
    /\ ferr' = <<>>
    /\ UNCHANGED <<rows, res_col, maxDepth>>

\* the steps of one call of makeDecisionTree
Run ==
    \/ MakeDecisionTree
    \/ BuildTreeEnter
    \/ LoopHomogeneous
    \/ LoopRecurse
    \/ BuildTreeReturn
    \/ OutputDecision

Next ==
    \/ Main
    \/ Run

Spec == Init /\ [][Next]_vars

NextRerun ==
    \/ Main
    \/ Run
    \/ Rerun

SpecRerun == Init /\ [][NextRerun]_vars

NextFromTable ==
    \/ CallWithRows
    \/ MakeDecisionTree

SpecFromTable == Init /\ [][NextFromTable]_vars

\* ---------------------------------------------------------------------------
\* Vocabulary of the properties
\* ---------------------------------------------------------------------------
Root == fromTable(rows)

RuleLines(out) == SubSeq(out, 2, Len(out))

Built == pc \in {"emit", "done"}

\* value of column k in row r of the input, None when the row lacks it
RowValue(r, k) ==
    IF \E i \in 1..Len(rows[r]) : rows[r][i][1] = k
    THEN rows[r][CHOOSE i \in 1..Len(rows[r]) : rows[r][i][1] = k][2]
    ELSE None

Matching(predicates) ==
    { r \in 1..Len(rows) : \A i \in 1..Len(predicates) :
          RowValue(r, predicates[i][1]) = predicates[i][2] }

\* the root-to-leaf paths of the tree under node n, leaves in traversal order
RECURSIVE LeafPaths(_, _)
RECURSIVE ChildPaths(_, _, _)
LeafPaths(n, path) ==
    IF nodes[n].children = <<>> THEN << Append(path, n) >>
    ELSE ChildPaths(n, Append(path, n), 1)

ChildPaths(n, path, k) ==
    IF k > Len(nodes[n].children) THEN <<>>
    ELSE LeafPaths(nodes[n].children[k], path) \o ChildPaths(n, path, k + 1)

Paths == IF nodes = <<>> THEN <<>> ELSE LeafPaths(1, <<>>)

PathPredicates(path) ==
    [i \in 1..(Len(path) - 1) |->
        <<nodes[path[i + 1]].data.partitionKey, nodes[path[i + 1]].data.partitionValue>>]

Leaves == { n \in 1..Len(nodes) : nodes[n].children = <<>> }

Internal == { n \in 1..Len(nodes) : nodes[n].children # <<>> }

SameMultiset(a, b) ==
    \A x \in Range(a) \cup Range(b) :
        Cardinality({ i \in 1..Len(a) : a[i] = x }) = Cardinality({ i \in 1..Len(b) : b[i] = x })

\* the j-th smallest element of a set of indices
NthIndex(idxs, j) == CHOOSE i \in idxs : Cardinality({ m \in idxs : m <= i }) = j

Max(a, b) == IF a >= b THEN a ELSE b

\* ---------------------------------------------------------------------------
\* C1: once makeDecisionTree has built the tree and emitted its rules, the
\* Count fields of the rule lines add up to the size of the root table.
\* ---------------------------------------------------------------------------
C1_CountsSumToSize ==
    pc = "done" =>
        SumSeq([i \in 1..Len(RuleLines(fout)) |-> RuleLines(fout)[i].Count]) = size(Root)

C1_Witness ==
    /\ pc = "done"
    /\ Len(RuleLines(fout)) >= 3
    /\ \E i \in 1..Len(RuleLines(fout)) : RuleLines(fout)[i].Path_Length >= 2

\* ---------------------------------------------------------------------------
\* C2: partitionOnFeature(col) gives one sub-table per distinct value of col;
\* their parent index sets are pairwise disjoint and cover every row, their
\* sizes add up to the parent's size, and every column of a sub-table has the
\* sub-table's length and keeps the parent's row order.
\* ---------------------------------------------------------------------------
IsPartition(self, col, parts) ==
    LET idx == [i \in 1..Len(parts) |-> get_indexes(self, col, parts[i].partitionValue)]
    IN /\ Len(parts) = Cardinality(uniqueSet(self, col))
       /\ { parts[i].partitionValue : i \in 1..Len(parts) } = uniqueSet(self, col)
       /\ \A i, j \in 1..Len(parts) : i # j => idx[i] \cap idx[j] = {}
       /\ UNION { idx[i] : i \in 1..Len(parts) } = 1..size(self)
       /\ SumSeq([i \in 1..Len(parts) |-> size(parts[i])]) = size(self)
       /\ \A i \in 1..Len(parts) :
            /\ Keys(parts[i].columnSet) = Keys(self.columnSet)
            /\ \A c \in 1..Len(self.columnSet) :
                 /\ Len(parts[i].columnSet[c][2]) = Cardinality(idx[i])
                 /\ parts[i].columnSet[c][2] = get_values(self, self.columnSet[c][1], idx[i])
                 /\ \A j \in 1..Cardinality(idx[i]) :
                      parts[i].columnSet[c][2][j] = self.columnSet[c][2][NthIndex(idx[i], j)]

C2_PartitionIsExact ==
    (pc = "build" /\ stack # <<>> /\ Top.st = "loop" /\ Top.i = 1) =>
            /\ IsPartition(Top.entry, Top.col, Top.parts)
            /\ \A col \in KeySet(Top.entry.columnSet) : \A order \in uniques(Top.entry, col) :
                  IsPartition(Top.entry, col, partitionOnFeature(Top.entry, col, order))

C2_Witness ==
    /\ pc = "build" /\ stack # <<>> /\ Top.st = "loop" /\ Top.i = 1
    /\ Len(Top.parts) = 2
    /\ size(Top.entry) = 3
    /\ Top.entry.columnSet[1][2] = <<"x", "y", "x">>

\* ---------------------------------------------------------------------------
\* C3: each rule line counts exactly the rows of the input that satisfy all
\* its predicates, its Result holds exactly the target values of those rows,
\* and its predicates are the split key/value pairs along the path from the
\* root to its leaf, in that order.
\* ---------------------------------------------------------------------------
C3_RulesDescribeRows ==
    Built =>
        \A i \in 1..Len(RuleLines(fout)) :
            LET line == RuleLines(fout)[i] IN
            /\ line.Count = Cardinality(Matching(line.Predicates))
            /\ Range(line.Result[2]) = { RowValue(r, res_col) : r \in Matching(line.Predicates) }
            /\ line.Result[1] = res_col
            /\ line.Predicates = PathPredicates(Paths[i])
            /\ line.Path_Length = Len(Paths[i]) - 1

C3_Witness ==
    /\ pc = "done"
    /\ Len(RuleLines(fout)) >= 3
    /\ \E i, j \in 1..Len(RuleLines(fout)) :
          /\ i < j
          /\ RuleLines(fout)[i].Path_Length = 2
          /\ RuleLines(fout)[j].Path_Length = 1

\* ---------------------------------------------------------------------------
\* C4: with a target column the input table does not have, buildTree is never
\* called and nothing reaches the output sink; only the diagnostic is written.
\* ---------------------------------------------------------------------------
C4_MissingTargetWritesNothing ==
    (pc # "main" /\ validate(Root) /\ res_col \notin KeySet(Root.columnSet)) =>
        /\ fout = <<>>
        /\ stack = <<>>
        /\ nodes = <<>>
        /\ pc \in {"main", "start", "aborted"}
        /\ pc = "aborted" => Len(ferr) = 1

C4_Witness ==
    /\ pc = "aborted"
    /\ Len(rows) >= 2
    /\ res_col \notin KeySet(Root.columnSet)
    /\ Len(ferr) = 1

\* ---------------------------------------------------------------------------
\* C5: fromTable rejects every input whose rows do not all expose the same
\* attribute-name set: no table is produced from it.
\* ---------------------------------------------------------------------------
RowKeys(r) == { rows[r][i][1] : i \in 1..Len(rows[r]) }

SameAttributeSets == \A r, q \in 1..Len(rows) : RowKeys(r) = RowKeys(q)

C5_RaggedRowsRejected ==
    (pc \notin {"main", "start"} /\ ~SameAttributeSets) => pc = "raised"

\* ---------------------------------------------------------------------------
\* C6: a second run on the same input emits the same multiset of rule lines
\* as the first, whatever order the distinct values are enumerated in.
\* ---------------------------------------------------------------------------
C6_RerunSameLines ==
    (pc = "done" /\ prev # <<>>) => SameMultiset(RuleLines(fout), RuleLines(prev[1]))

\* ---------------------------------------------------------------------------
\* C7: on a valid table that has the target column buildTree terminates; every
\* recursive call runs on a table with strictly fewer attributes than its
\* caller's and a depth one greater.
\* ---------------------------------------------------------------------------
CallChainDecreases ==
    \A k \in 2..Len(stack) :
        /\ KeySet(stack[k].entry.columnSet) \subseteq KeySet(stack[k - 1].entry.columnSet)
        /\ KeySet(stack[k].entry.columnSet) # KeySet(stack[k - 1].entry.columnSet)
        /\ stack[k].entry.depth = stack[k - 1].entry.depth + 1

\* an upper bound on the buildTree steps an activation record still needs:
\* a call on a table of n rows with a attributes besides the target takes at
\* most 2 + 3*a*n steps
Attrs(self) == Cardinality(KeySet(self.columnSet) \ {res_col})

FrameRank(f) ==
    IF f.st = "enter" THEN 2 + 3 * Attrs(f.entry) * size(f.entry)
    ELSE IF f.st = "return" THEN 1
    ELSE 1 + SumSeq([k \in 1..(Len(f.parts) - f.i + 1) |->
                        3 + 3 * (Attrs(f.entry) - 1) * size(f.parts[f.i + k - 1])])

Rank == SumSeq([k \in 1..Len(stack) |-> FrameRank(stack[k])])

C7_BuildTreeTerminates ==
    /\ [](pc = "build" => stack # <<>> /\ Top.st \in {"enter", "loop", "return"})
    /\ []CallChainDecreases
    /\ [][pc = "build" => /\ pc' \in {"build", "emit"}
                          /\ Rank' >= 0
                          /\ Rank' < Rank]_vars

C7_Witness ==
    /\ pc = "build"
    /\ Len(stack) = 3
    /\ stack[3].st = "return"
    /\ stack[3].entry.depth <= stack[3].entry.maxDepth

\* ---------------------------------------------------------------------------
\* C8: a node at distance d from the root has depth d + 1 and the root's
\* maxDepth; a node deeper than maxDepth has no children; so no rule is longer
\* than max(maxDepth, 0), and with maxDepth = 0 the root is the only leaf,
\* emitted with the whole table's count, no predicates and every target value.
\* ---------------------------------------------------------------------------
C8_DepthIsBounded ==
    /\ \A n \in 1..Len(nodes) :
         /\ nodes[n].data.maxDepth = maxDepth
         /\ nodes[n].data.depth > maxDepth => nodes[n].children = <<>>
         /\ \A k \in 1..Len(nodes[n].children) :
              nodes[nodes[n].children[k]].data.depth = nodes[n].data.depth + 1
    /\ \A p \in 1..Len(Paths) : \A d \in 1..Len(Paths[p]) :
         nodes[Paths[p][d]].data.depth = d
    /\ \A i \in 1..Len(RuleLines(fout)) :
         RuleLines(fout)[i].Path_Length <= Max(maxDepth, 0)
    /\ (pc = "done" /\ maxDepth = 0) =>
         /\ Len(RuleLines(fout)) = 1
         /\ RuleLines(fout)[1].Count = size(Root)
         /\ RuleLines(fout)[1].Path_Length = 0
         /\ RuleLines(fout)[1].Predicates = <<>>
         /\ Range(RuleLines(fout)[1].Result[2]) = uniqueSet(Root, res_col)

C8_Witness ==
    /\ pc = "done"
    /\ maxDepth = 0
    /\ Cardinality(KeySet(Root.columnSet)) = 3
    /\ size(Root) = 3
    /\ Cardinality(uniqueSet(Root, res_col)) = 2

\* ---------------------------------------------------------------------------
\* C9: every leaf of the finished tree is homogeneous on the target, or deeper
\* than maxDepth, or left with the target as its only attribute; a rule with
\* several Result values comes from a leaf of the last two kinds, and every
\* internal node other than the root is not homogeneous on the target.
\* ---------------------------------------------------------------------------
Homogeneous(n) == Cardinality(Range(Column(nodes[n].data.columnSet, res_col))) = 1

Truncated(n) ==
    \/ nodes[n].data.depth > nodes[n].data.maxDepth
    \/ KeySet(nodes[n].data.columnSet) = {res_col}

C9_LeavesAreJustified ==
    Built =>
        /\ \A n \in Leaves : Homogeneous(n) \/ Truncated(n)
        /\ \A i \in 1..Len(RuleLines(fout)) :
             Len(RuleLines(fout)[i].Result[2]) > 1 => Truncated(Paths[i][Len(Paths[i])])
        /\ \A n \in Internal \ {1} : ~Homogeneous(n)

C9_Witness ==
    /\ pc = "done"
    /\ \E i, j \in 1..Len(RuleLines(fout)) :
          /\ Len(RuleLines(fout)[i].Result[2]) = 2
          /\ RuleLines(fout)[i].Path_Length = 2
          /\ Len(RuleLines(fout)[j].Result[2]) = 1
          /\ RuleLines(fout)[j].Path_Length = 1

\* ---------------------------------------------------------------------------
\* C10: deleting the split column from a partition changes that partition
\* only: the table of a node under construction stays what it was when
\* buildTree was called on it, the root's table is the input table afterwards,
\* every child holds its parent's rows for its value (without the split column
\* if it was recursed on), and no path splits on one attribute twice.
\* ---------------------------------------------------------------------------
ChildIsSlice(n, c) ==
    LET child == nodes[c].data
        slice == buildPartition(nodes[n].data, child.partitionKey, child.partitionValue)
        removed == IF Homogeneous(c) THEN {} ELSE {child.partitionKey}
    IN /\ KeySet(child.columnSet) = KeySet(nodes[n].data.columnSet) \ removed
       /\ \A k \in KeySet(child.columnSet) :
            Column(child.columnSet, k) = Column(slice.columnSet, k)

C10_DelIsLocal ==
    /\ \A k \in 1..Len(stack) :
         stack[k].node > 0 => nodes[stack[k].node].data = stack[k].entry
    /\ Built => nodes[1].data.columnSet = Root.columnSet
    /\ \A n \in 1..Len(nodes) : \A k \in 1..Len(nodes[n].children) :
         ChildIsSlice(n, nodes[n].children[k])
    /\ \A p \in 1..Len(Paths) : \A i, j \in 1..Len(PathPredicates(Paths[p])) :
         i # j => PathPredicates(Paths[p])[i][1] # PathPredicates(Paths[p])[j][1]

C10_Witness ==
    /\ pc = "done"
    /\ Len(nodes[1].children) = 2
    /\ \E k \in 1..2 : nodes[nodes[1].children[k]].children # <<>>
    /\ \E k \in 1..2 : nodes[nodes[1].children[k]].children = <<>>

====
